---- MODULE Spec2Model ----
(***************************************************************************)
(* A model of FNO_Multiple.py: the autoregressive rollout driver of the    *)
(* training / evaluation / final-test loops, the six-block operator stack  *)
(* of FNO2d_Multi.forward, the mode-block indexing of SpectralConv2d and   *)
(* the four normalizers.                                                   *)
(*                                                                         *)
(* Tensors are modelled along the axis the driver manipulates: a field     *)
(* tensor is the sequence of its time-channels, each channel a record that *)
(* says where it comes from.                                               *)
(***************************************************************************)
EXTENDS Integers, Sequences, FiniteSets, TLC

(***************************************************************************)
(* Bounds of the model (the script's configuration, scaled down).          *)
(***************************************************************************)
MaxTin == 3
MaxT == 6
MaxStep == 3
Epochs == 2
TrainBatches == 2
EvalBatches == 1
NTest == 2
SchedulerStep == 2

VARIABLES
    \* ---- rollout driver (script lines 614-616, 684-801) ----
    T_in, T, step,      \* configuration['T_in'], ['T_out'], ['Step']
    mode,               \* "train" | "eval" | "test": which of the three loops runs
    pc,                 \* position inside the loop nest
    ep,                 \* epoch counter of `for ep in range(epochs)`
    remaining,          \* batches the current data loader has not yielded yet
    b,                  \* batch yielded last: the loader's dataset and the batch's position in it
    t,                  \* horizon index of `for t in range(0, T, step)`
    xx, yy,             \* sliding window and target of the current batch
    im, pred,           \* last prediction, full-horizon prediction buffer
    loss,               \* step-wise loss: the terms summed so far
    l2_full,            \* full-horizon losses computed for the current batch
    weights,            \* number of optimizer.step() calls applied to the model
    schedSteps,         \* number of scheduler.step() calls
    lr,                 \* the optimizer's learning rate, a fraction <<num, den>>
    pred_set, index,    \* final-test output tensor and its write position
    report,             \* what the metrics block of lines 787-801 reported
    calls,              \* history: the model(xx) calls of the current rollout
    k,                  \* history: transitions completed in the current rollout
    \* ---- FNO2d_Multi.forward (lines 482-532) ----
    fpc,                \* position inside forward
    fblock,             \* index of the next operator block (0..5)
    fx,                 \* the tensor x of forward, as the expression that made it
    fchan,              \* size of the channel axis of x
    fin,                \* history: the shape forward was called with
    fshape,             \* x.shape
    blockOut,           \* history: x after each operator block so far
    \* ---- SpectralConv2d (lines 377-416) ----
    spc,                \* position: before __init__, between the lines of forward
    sx, sy,             \* x.size(-2), x.size(-1): the spatial sizes of the input
    modes1, modes2,     \* self.modes1, self.modes2
    weights1, weights2, \* self.weights1, self.weights2
    wkind, seed,        \* which weight values / input values the run uses
    x_ft,               \* rfft2(x): the input half-spectrum
    out_ft,             \* the output half-spectrum
    sret,               \* the spectrum handed to irfft2
    \* ---- the normalizers (lines 84-210) ----
    npc,                \* position: before __init__, fitted, after encode, after decode
    nkind,              \* which of the four classes
    ndata,              \* the tensor the normalizer is fitted on
    nlow, nhigh,        \* the low / high arguments of the two range classes
    nstats,             \* the fitted attributes: a, b or mean, std, eps
    nx, nenc, ndec      \* a tensor x, encode(x), decode(encode(x))

rolloutVars == <<T_in, T, step, mode, pc, ep, remaining, b, t, xx, yy, im, pred,
                 loss, l2_full, weights, schedSteps, lr, pred_set, index, report,
                 calls, k>>

fwdVars == <<fpc, fblock, fx, fchan, fin, fshape, blockOut>>

convVars == <<spc, sx, sy, modes1, modes2, weights1, weights2, wkind, seed,
              x_ft, out_ft, sret>>

normVars == <<npc, nkind, ndata, nlow, nhigh, nstats, nx, nenc, ndec>>

vars == <<rolloutVars, fwdVars, convVars, normVars>>

driverVars == <<mode, pc, ep, remaining, b, t, xx, yy, im, pred, loss, l2_full,
                weights, schedSteps, lr, pred_set, index, report, calls, k>>
notRollout == <<fwdVars, convVars, normVars>>
notFwd == <<driverVars, T, convVars, normVars>>
notConv == <<rolloutVars, fwdVars, normVars>>
notNorm == <<rolloutVars, fwdVars, convVars>>

(***************************************************************************)
(* Helpers on sequences, with Python's slice semantics.                    *)
(***************************************************************************)
Min2(a, c) == IF a <= c THEN a ELSE c
Max2(a, c) == IF a >= c THEN a ELSE c

\* w[..., lo:hi] for 0 <= lo, hi (clamped to the length, empty when lo >= hi)
Slice(w, lo, hi) == SubSeq(w, Min2(lo, Len(w)) + 1, Min2(hi, Len(w)))

\* A faulty DropOldest: drops one channel whatever the step.
DropOldestOne(w, n) == Slice(w, 1, Len(w))

\* xx[..., step:]
DropOldest(w, n) == Slice(w, n, Len(w))

(***************************************************************************)
(* Channels.  at is the absolute time index of the channel in uvp's time   *)
(* axis; enc says whether the channel went through a normalizer's encode.  *)
(***************************************************************************)
Chan(kind, src, ex, at, w, enc) ==
    [kind |-> kind, src |-> src, ex |-> ex, at |-> at, w |-> w, enc |-> enc]

\* train_a / test_a: uvp[..., :T_in], encoded by a_normalizer (lines 619-635)
InputWindow(src, ex) ==
    [i \in 1..T_in |-> Chan("a", src, ex, i - 1, 0, TRUE)]

\* train_u: uvp[..., T_in:T+T_in] encoded by y_normalizer (lines 620, 641);
\* test_u: the same slice of the test split, as the loaders of lines 648 and
\* 757 hold it (test_u itself, not test_u_encoded)
Target(src, ex) ==
    [j \in 1..T |-> Chan("u", src, ex, T_in + j - 1, 0, src = "train")]

\* the loader a mode iterates (lines 647, 648, 757)
LoaderSrc(m) == IF m = "train" THEN "train" ELSE "test"
LoaderBatches(m) ==
    IF m = "train" THEN 0..(TrainBatches - 1)
    ELSE IF m = "eval" THEN 0..(EvalBatches - 1)
    ELSE 0..(NTest - 1)

(***************************************************************************)
(* FNO2d_Multi.forward seen from the driver: get_grid appends two          *)
(* coordinate channels, fc0 = nn.Linear(T_in+2, width) accepts exactly     *)
(* T_in+2 channels, fc2 = nn.Linear(128, step) returns step channels.      *)
(***************************************************************************)
ForwardAccepts(w) == Len(w) + 2 = T_in + 2

ForwardOut(src, ex, tt) ==
    [j \in 1..step |-> Chan("im", src, ex, T_in + tt + j - 1, weights, TRUE)]

\* myloss(im.reshape(batch_size, -1), y.reshape(batch_size, -1)): LpLoss.rel
\* subtracts the two, which needs the same number of elements
LossAccepts(p, y) == Len(p) = Len(y)
LossTerm(p, y) == [pred |-> p, target |-> y]

\* A faulty NextPred: the buffer is overwritten at every transition.
NextPredNoCat(tt, buf, out) == out

\* if t == 0: pred = im  else: pred = torch.cat((pred, im), -1)
NextPred(tt, buf, out) == IF tt = 0 THEN out ELSE buf \o out

\* A faulty NextT: the horizon index advances by one.
NextTByOne(tt) == tt + 1

\* the next value of range(0, T, step)
NextT(tt) == tt + step

(***************************************************************************)
(* The optimizer's learning rate (lines 669-670): Adam starts at           *)
(* configuration['Learning Rate'] = 0.001 and StepLR multiplies the rate   *)
(* by configuration['Scheduler Gamma'] = 0.5 at every scheduler.step()     *)
(* whose count is a multiple of step_size = configuration['Scheduler       *)
(* Step'].  Rates are fractions <<numerator, denominator>>.                *)
(***************************************************************************)
LearningRate == <<1, 1000>>
SchedulerGamma == <<1, 2>>

Scale(rate, f) == <<rate[1] * f[1], rate[2] * f[2]>>

\* the rate after the scheduler.step() call number last_epoch
StepLR(rate, last_epoch) ==
    IF last_epoch % SchedulerStep = 0 THEN Scale(rate, SchedulerGamma) ELSE rate

(***************************************************************************)
(* The driver.                                                             *)
(***************************************************************************)
NoBatch == [src |-> "none", ex |-> 0]

RolloutInit ==
    /\ T_in \in 1..MaxTin
    /\ T \in 1..MaxT
    /\ step \in 1..MaxStep
    /\ mode = "train"
    /\ pc = "next_batch"
    /\ ep = 0
    /\ remaining = LoaderBatches("train")
    /\ b = NoBatch
    /\ t = 0
    /\ xx = <<>> /\ yy = <<>> /\ im = <<>> /\ pred = <<>>
    /\ loss = <<>> /\ l2_full = <<>>
    /\ weights = 0 /\ schedSteps = 0 /\ lr = LearningRate
    /\ pred_set = <<>> /\ index = 0
    /\ report = <<>>
    /\ calls = <<>> /\ k = 0

configVars == <<T_in, T, step>>

\* `for xx, yy in loader:` yields a batch; `loss = 0` (lines 689-692, 719-722,
\* 762-765).  train_loader shuffles, the two test loaders do not.
NextBatch ==
    /\ pc = "next_batch"
    /\ remaining # {}
    /\ \E bb \in remaining :
        /\ mode # "train" => \A o \in remaining : bb <= o
        /\ b' = [src |-> LoaderSrc(mode), ex |-> bb]
        /\ remaining' = remaining \ {bb}
        /\ xx' = InputWindow(LoaderSrc(mode), bb)
        /\ yy' = Target(LoaderSrc(mode), bb)
    /\ loss' = <<>>
    /\ l2_full' = <<>>
    /\ t' = 0
    /\ calls' = <<>>
    /\ k' = 0
    /\ pc' = "loop"
    /\ UNCHANGED <<configVars, mode, ep, im, pred, weights, schedSteps, lr,
                   pred_set, index, report>>
    /\ UNCHANGED notRollout

\* A faulty TargetSlice: every transition is scored against the first slice.
TargetSliceFirst(tt) == Slice(yy, 0, step)

\* y = yy[..., t:t + step]
TargetSlice(tt) == Slice(yy, tt, tt + step)

\* One pass through the body of `for t in range(0, T, step):` (lines 695-705,
\* 724-734, 767-777).  An exception raised by model(xx) or by myloss ends the
\* script.
Transition ==
    /\ pc = "loop"
    /\ LET y == TargetSlice(t)
           out == ForwardOut(b.src, b.ex, t)
       IN  IF ~ForwardAccepts(xx)
           THEN /\ calls' = Append(calls, [t |-> t, input |-> xx, ok |-> FALSE,
                                            out |-> <<>>])
                /\ pc' = "error"
                /\ UNCHANGED <<im, loss, pred, xx, t, k>>
           ELSE /\ calls' = Append(calls, [t |-> t, input |-> xx, ok |-> TRUE,
                                            out |-> out])
                /\ im' = out
                /\ IF ~LossAccepts(out, y)
                   THEN /\ pc' = "error"
                        /\ UNCHANGED <<loss, pred, xx, t, k>>
                   ELSE /\ loss' = Append(loss, LossTerm(out, y))
                        /\ pred' = NextPred(t, pred, out)
                        /\ xx' = DropOldest(xx, step) \o out
                        /\ k' = k + 1
                        /\ IF NextT(t) < T
                           THEN t' = NextT(t) /\ pc' = "loop"
                           ELSE t' = t /\
                                pc' = IF mode = "test" THEN "next_batch" ELSE "full"
    /\ UNCHANGED <<configVars, mode, ep, remaining, b, yy, l2_full, weights,
                   schedSteps, lr, pred_set, index, report>>
    /\ UNCHANGED notRollout

\* lines 707-709 (training) and 736-737 (evaluation): the full-horizon loss
FullLoss ==
    /\ pc = "full"
    /\ IF LossAccepts(pred, yy)
       THEN /\ l2_full' = Append(l2_full, LossTerm(pred, yy))
            /\ pc' = IF mode = "train" THEN "opt" ELSE "next_batch"
       ELSE /\ pc' = "error"
            /\ UNCHANGED l2_full
    /\ UNCHANGED <<configVars, mode, ep, remaining, b, t, xx, yy, im, pred, loss,
                   weights, schedSteps, lr, pred_set, index, report, calls, k>>
    /\ UNCHANGED notRollout

\* A faulty OptimizerStep: the scheduler is left for the end of the epoch.
OptimizerStepNoScheduler ==
    /\ pc = "opt"
    /\ mode = "train"
    /\ weights' = weights + 1
    /\ pc' = "next_batch"
    /\ UNCHANGED <<configVars, mode, ep, remaining, b, t, xx, yy, im, pred, loss,
                   l2_full, schedSteps, lr, pred_set, index, report, calls, k>>
    /\ UNCHANGED notRollout

\* A faulty OptimizerStep: the gradients are computed but never applied.
OptimizerStepNoUpdate ==
    /\ pc = "opt"
    /\ mode = "train"
    /\ schedSteps' = schedSteps + 1
    /\ lr' = StepLR(lr, schedSteps + 1)
    /\ pc' = "next_batch"
    /\ UNCHANGED <<configVars, mode, ep, remaining, b, t, xx, yy, im, pred, loss,
                   l2_full, weights, pred_set, index, report, calls, k>>
    /\ UNCHANGED notRollout

\* lines 711-714: optimizer.zero_grad(); loss.backward(); optimizer.step();
\* scheduler.step()
OptimizerStep ==
    /\ pc = "opt"
    /\ mode = "train"
    /\ weights' = weights + 1
    /\ schedSteps' = schedSteps + 1
    /\ lr' = StepLR(lr, schedSteps + 1)
    /\ pc' = "next_batch"
    /\ UNCHANGED <<configVars, mode, ep, remaining, b, t, xx, yy, im, pred, loss,
                   l2_full, pred_set, index, report, calls, k>>
    /\ UNCHANGED notRollout

\* train_loader is exhausted: lines 716-719 start the evaluation loop
EvalStart ==
    /\ pc = "next_batch" /\ remaining = {} /\ mode = "train"
    /\ mode' = "eval"
    /\ remaining' = LoaderBatches("eval")
    /\ UNCHANGED <<configVars, pc, ep, b, t, xx, yy, im, pred, loss, l2_full,
                   weights, schedSteps, lr, pred_set, index, report, calls, k>>
    /\ UNCHANGED notRollout

\* test_loader is exhausted: lines 739-746 end the epoch; after the last one
\* lines 750-759 save the model and set up the final test
EpochEnd ==
    /\ pc = "next_batch" /\ remaining = {} /\ mode = "eval"
    /\ IF ep + 1 < Epochs
       THEN /\ ep' = ep + 1
            /\ mode' = "train"
            /\ remaining' = LoaderBatches("train")
            /\ UNCHANGED <<pred_set, index>>
       ELSE /\ mode' = "test"
            /\ remaining' = LoaderBatches("test")
            /\ pred_set' = [i \in LoaderBatches("test") |-> <<>>]
            /\ index' = 0
            /\ UNCHANGED ep
    /\ UNCHANGED <<configVars, pc, b, t, xx, yy, im, pred, loss, l2_full,
                   weights, schedSteps, lr, report, calls, k>>
    /\ UNCHANGED notRollout

\* lines 779-783, which follow the final test loop: pred_set[index] = pred;
\* index += 1
StorePred ==
    /\ pc = "next_batch" /\ remaining = {} /\ mode = "test"
    /\ pred_set' = [pred_set EXCEPT ![index] = pred]
    /\ index' = index + 1
    /\ pc' = "metrics"
    /\ UNCHANGED <<configVars, mode, ep, remaining, b, t, xx, yy, im, pred, loss,
                   l2_full, weights, schedSteps, lr, report, calls, k>>
    /\ UNCHANGED notRollout

\* lines 787-801: the error metrics, then pred_set is decoded
Metrics ==
    /\ pc = "metrics"
    /\ report' = [MSE |-> [pred |-> pred_set, target_enc |-> TRUE],
                  LP |-> loss]
    /\ pred_set' = [i \in DOMAIN pred_set |->
                      [j \in DOMAIN pred_set[i] |->
                          [pred_set[i][j] EXCEPT !.enc = FALSE]]]
    /\ pc' = "done"
    /\ UNCHANGED <<configVars, mode, ep, remaining, b, t, xx, yy, im, pred, loss,
                   l2_full, weights, schedSteps, lr, index, calls, k>>
    /\ UNCHANGED notRollout

Next ==
    \/ NextBatch
    \/ Transition
    \/ FullLoss
    \/ OptimizerStep
    \/ EvalStart
    \/ EpochEnd
    \/ StorePred
    \/ Metrics

\* the forward pass is not running
FwdIdle ==
    /\ fpc = "idle" /\ fblock = 0 /\ fx = <<>> /\ fchan = 0 /\ blockOut = <<>>
    /\ fin = <<>> /\ fshape = <<>>

\* no Fourier layer is under study
ConvIdle ==
    /\ spc = "idle" /\ sx = 0 /\ sy = 0 /\ modes1 = 0 /\ modes2 = 0
    /\ weights1 = <<>> /\ weights2 = <<>> /\ wkind = "none" /\ seed = 0
    /\ x_ft = <<>> /\ out_ft = <<>> /\ sret = <<>>

\* no normalizer is under study
NormIdle ==
    /\ npc = "idle" /\ nkind = "none" /\ ndata = <<>> /\ nlow = <<>> /\ nhigh = <<>>
    /\ nstats = <<>> /\ nx = <<>> /\ nenc = <<>> /\ ndec = <<>>

Init == RolloutInit /\ FwdIdle /\ ConvIdle /\ NormIdle

Spec == Init /\ [][Next]_vars

(***************************************************************************)
(* Properties of the rollout driver.                                       *)
(***************************************************************************)
\* the rollout of the current batch has run all its transitions
RolloutDone == k >= 1 /\ pc \notin {"loop", "error"}

RECURSIVE Flatten(_)
Flatten(ss) == IF ss = <<>> THEN <<>> ELSE Head(ss) \o Flatten(Tail(ss))

CallOuts == [i \in 1..Len(calls) |-> calls[i].out]

\* C1, as the claim states it: whenever T is a multiple of step, the sliding
\* window xx has exactly T_in channels after every transition, for every T_in
\* and step (step > T_in included).
C1_WindowAlwaysTin ==
    (T % step = 0 /\ k >= 1) => Len(xx) = T_in

\* C1, amended: after every transition the window has max(T_in - step, 0) + step
\* channels, which is exactly T_in whenever step <= T_in (and exactly step when
\* step > T_in).
C1_WindowLength ==
    k >= 1 =>
        /\ Len(xx) = Max2(T_in - step, 0) + step
        /\ step <= T_in => Len(xx) = T_in
        /\ step > T_in => Len(xx) = step

C1_Witness ==
    /\ k >= 2 /\ step >= 2 /\ step <= T_in /\ Len(xx) = T_in /\ pc # "error"

\* C2: after k >= 1 transitions of a rollout the prediction buffer pred has
\* exactly k*step channels; the rollout goes on only while that is less than T,
\* and once it has stopped pred has exactly T channels, after T/step
\* transitions.
C2_PredGrowth ==
    /\ k >= 1 => Len(pred) = k * step
    /\ (k >= 1 /\ pc = "loop") => k * step < T
    /\ RolloutDone => (Len(pred) = T /\ k * step = T)

C2_Witness ==
    /\ RolloutDone /\ k >= 2 /\ step >= 2 /\ Len(pred) = T

\* C3: the i-th model call of a rollout is made at horizon index (i-1)*step
\* (so the indices are 0, step, 2*step, ... in increasing order, none skipped or
\* repeated, the last one T - step when T is a multiple of step); the first
\* call receives the window the loader yielded, and every later call receives
\* the previous call's window without its oldest step channels, followed by
\* the previous call's prediction.
C3_HorizonOrder ==
    /\ \A i \in 1..Len(calls) :
          /\ calls[i].t = (i - 1) * step
          /\ calls[i].t < T
          /\ T % step = 0 => calls[i].t <= T - step
    /\ Len(calls) >= 1 => calls[1].input = InputWindow(b.src, b.ex)
    /\ \A i \in 1..(Len(calls) - 1) :
          /\ calls[i].ok
          /\ Len(calls[i].out) = step
          /\ calls[i + 1].input =
                SubSeq(calls[i].input, step + 1, Len(calls[i].input))
                    \o calls[i].out
    /\ pc = "loop" => t = Len(calls) * step
    /\ (RolloutDone /\ mode \in {"train", "eval"}) => Len(calls) * step = T

C3_Witness ==
    /\ Len(calls) >= 3 /\ step >= 2 /\ calls[3].ok

\* C4 (training and per-epoch evaluation loops): the full-horizon loss is
\* computed at most once per batch, only after the last transition, on the
\* complete T-channel prediction buffer (the predictions of all the calls, in
\* order) against the complete T-channel target, and it has been computed
\* exactly once when the batch is over; the step-wise loss holds one term per
\* transition made, the i-th one scoring the i-th prediction against target
\* channels [(i-1)*step, i*step), it is empty when a batch starts and holds
\* T/step terms when the rollout is over.
C4_Losses ==
    /\ Len(l2_full) <= 1
    /\ Len(l2_full) = 1 =>
          /\ RolloutDone
          /\ k * step = T
          /\ l2_full[1].pred = Flatten(CallOuts)
          /\ Len(l2_full[1].pred) = T
          /\ l2_full[1].target = Target(b.src, b.ex)
          /\ Len(l2_full[1].target) = T
    /\ (mode \in {"train", "eval"} /\ k >= 1 /\ pc \in {"opt", "next_batch"})
          => Len(l2_full) = 1
    /\ Len(loss) = k
    /\ (pc = "loop" /\ k = 0) => loss = <<>>
    /\ \A i \in 1..Len(loss) :
          /\ loss[i].pred = calls[i].out
          /\ loss[i].target =
                SubSeq(Target(b.src, b.ex), (i - 1) * step + 1, i * step)
          /\ \A j \in 1..step :
                loss[i].target[j].at = T_in + (i - 1) * step + (j - 1)
    /\ RolloutDone => Len(loss) * step = T

C4_Witness ==
    /\ mode = "train" /\ pc = "opt" /\ Len(l2_full) = 1 /\ Len(loss) >= 2
    /\ step >= 2

(***************************************************************************)
(* FNO2d_Multi.forward (lines 482-532).  The tensor x is modelled by the   *)
(* expression that produced it: E(op, i, args) is the result of applying   *)
(* layer `op` number i (conv0..conv5, w0..w5) to the tensors args.         *)
(***************************************************************************)
Width == 32
FcHidden == 128
NumBlocks == 6

E(op, i, args) == [op |-> op, i |-> i, args |-> args]

\* self.norm = nn.Identity() (line 473)
Norm(x) == x

\* A faulty Activated: the fourth block is given a nonlinearity too.
ActivatedFirstFour(i) == i \in {0, 1, 2, 3}

\* the blocks whose sum goes through F.gelu (lines 494, 501, 508)
Activated(i) == i \in {0, 1, 2}

\* x1 = self.norm(self.conv_i(self.norm(x))); x2 = self.w_i(x); x = x1 + x2
BlockSum(i, x) ==
    E("add", 0, <<Norm(E("conv", i, <<Norm(x)>>)), E("w", i, <<x>>)>>)

BlockApply(i, x) ==
    IF Activated(i) THEN E("gelu", 0, <<BlockSum(i, x)>>) ELSE BlockSum(i, x)

\* Shapes are sequences of axis sizes.  x.permute(p) for a 0-based order p
PermuteShape(s, p) == [i \in 1..Len(p) |-> s[p[i] + 1]]

\* nn.Linear(in, out) acts on the last axis
LinearShape(s, out) == [s EXCEPT ![Len(s)] = out]

\* get_grid (lines 535-541): the batch, variable, x and y sizes of x with two
\* coordinate channels, gridx and gridy
GridShape(s) == <<s[1], s[2], s[3], s[4], 2>>

\* torch.cat((x, grid), dim=-1)
CatShape(s, g) == [s EXCEPT ![Len(s)] = s[Len(s)] + g[Len(g)]]

\* the sum of a block, on x of shape (batch, width, num_vars, x, y):
\* SpectralConv2d returns irfft2(out_ft, s=(x.size(-2), x.size(-1))) with
\* out_channels_time = width channels, Conv3d(width, width, 1) keeps the shape
BlockShape(s) == <<s[1], Width, s[3], s[4], s[5]>>

\* lines 483-484: grid = self.get_grid(...); x = torch.cat((x, grid), dim=-1)
FwdGrid ==
    /\ fpc = "grid"
    /\ fx' = E("cat_grid", 0, <<fx>>)
    /\ fchan' = fchan + 2
    /\ fshape' = CatShape(fshape, GridShape(fshape))
    /\ fpc' = "lift"
    /\ UNCHANGED <<fblock, blockOut, fin, configVars, notFwd>>

\* A faulty FwdLift: a lift that takes any number of channels.
FwdLiftUnchecked ==
    /\ fpc = "lift"
    /\ fx' = E("permute", 0, <<E("fc0", 0, <<fx>>)>>)
    /\ fchan' = Width
    /\ fshape' = PermuteShape(LinearShape(fshape, Width), <<0, 4, 1, 2, 3>>)
    /\ fpc' = "block"
    /\ UNCHANGED <<fblock, blockOut, fin, configVars, notFwd>>

\* lines 486-487: x = self.fc0(x), a Linear(T_in+2, width) that raises on any
\* other channel count; x = x.permute(0, 4, 1, 2, 3)
FwdLift ==
    /\ fpc = "lift"
    /\ IF fchan = T_in + 2
       THEN /\ fx' = E("permute", 0, <<E("fc0", 0, <<fx>>)>>)
            /\ fchan' = Width
            /\ fshape' = PermuteShape(LinearShape(fshape, Width), <<0, 4, 1, 2, 3>>)
            /\ fpc' = "block"
       ELSE /\ fpc' = "error"
            /\ UNCHANGED <<fx, fchan, fshape>>
    /\ UNCHANGED <<fblock, blockOut, fin, configVars, notFwd>>

\* lines 489-526: the next of the six operator blocks
FwdBlock ==
    /\ fpc = "block"
    /\ fblock < NumBlocks
    /\ fx' = BlockApply(fblock, fx)
    /\ blockOut' = Append(blockOut, BlockApply(fblock, fx))
    /\ fblock' = fblock + 1
    /\ fshape' = BlockShape(fshape)
    /\ fpc' = IF fblock + 1 = NumBlocks THEN "project" ELSE "block"
    /\ UNCHANGED <<fchan, fin, configVars, notFwd>>

\* lines 528-532: permute back, fc1, gelu, fc2 = Linear(128, step)
FwdProject ==
    /\ fpc = "project"
    /\ fx' = E("fc2", 0, <<E("gelu", 0,
                 <<E("fc1", 0, <<E("permute", 0, <<fx>>)>>)>>)>>)
    /\ fchan' = step
    /\ fshape' = LinearShape(LinearShape(
                      PermuteShape(fshape, <<0, 2, 3, 4, 1>>), FcHidden), step)
    /\ fpc' = "done"
    /\ UNCHANGED <<fblock, blockOut, fin, configVars, notFwd>>

\* the driver is not running
RolloutIdle ==
    /\ mode = "idle" /\ pc = "idle" /\ ep = 0 /\ remaining = {} /\ b = NoBatch
    /\ t = 0 /\ xx = <<>> /\ yy = <<>> /\ im = <<>> /\ pred = <<>>
    /\ loss = <<>> /\ l2_full = <<>> /\ weights = 0 /\ schedSteps = 0
    /\ lr = <<>>
    /\ pred_set = <<>> /\ index = 0 /\ report = <<>> /\ calls = <<>> /\ k = 0

\* bounds on the batch, variable and spatial axis sizes of forward's input
MaxBatch == 2
MaxVars == 2
MaxSize == 2

\* forward is called on a window of any number of channels; its variable axis
\* has the num_vars entries the layers were built for
InitForward ==
    /\ T_in \in 1..MaxTin
    /\ step \in 1..MaxStep
    /\ T = step
    /\ RolloutIdle
    /\ fpc = "grid"
    /\ fblock = 0
    /\ fx = E("x", 0, <<>>)
    /\ fchan \in 1..(MaxTin + 1)
    /\ fin \in {<<bs, nv, zx, zy, fchan>> :
                    bs \in 1..MaxBatch, nv \in 1..MaxVars,
                    zx \in 1..MaxSize, zy \in 1..MaxSize}
    /\ fshape = fin
    /\ blockOut = <<>>
    /\ ConvIdle
    /\ NormIdle

NextForward ==
    \/ FwdGrid
    \/ FwdLift
    \/ FwdBlock
    \/ FwdProject

SpecForward == InitForward /\ [][NextForward]_vars

(***************************************************************************)
(* Properties of the operator block stack.                                 *)
(***************************************************************************)
\* the tensor the first block receives
Lifted ==
    E("permute", 0, <<E("fc0", 0, <<E("cat_grid", 0, <<E("x", 0, <<>>)>>)>>)>>)

BlockIn(i) == IF i = 1 THEN Lifted ELSE blockOut[i - 1]

\* conv_(i-1)(x) + w_(i-1)(x) for the i-th block's input x
SumOf(i) ==
    E("add", 0, <<E("conv", i - 1, <<BlockIn(i)>>), E("w", i - 1, <<BlockIn(i)>>)>>)

\* C5, as the claim states it: the blocks run in the order 0..5, each on the
\* previous block's output with its own conv_i / w_i pair; blocks 1 to 4 return
\* gelu(conv_i(x) + w_i(x)) and blocks 5 and 6 the raw sum.
C5_GeluOnFirstFour ==
    \A i \in 1..Len(blockOut) :
        blockOut[i] = IF i <= 4 THEN E("gelu", 0, <<SumOf(i)>>) ELSE SumOf(i)

\* C5, amended: the blocks run in the order 0..5, each on the previous block's
\* output with its own conv_i / w_i pair; blocks 1 to 3 return
\* gelu(conv_i(x) + w_i(x)) and blocks 4, 5 and 6 the raw sum.
C5_GeluOnFirstThree ==
    /\ Len(blockOut) = (IF fpc = "block" THEN fblock
                        ELSE IF fpc \in {"project", "done"} THEN NumBlocks ELSE 0)
    /\ \A i \in 1..Len(blockOut) :
        blockOut[i] = IF i <= 3 THEN E("gelu", 0, <<SumOf(i)>>) ELSE SumOf(i)
    /\ fpc = "project" => fx = blockOut[NumBlocks]

C5_Witness ==
    /\ fpc = "done" /\ Len(blockOut) = NumBlocks
    /\ blockOut[3].op = "gelu" /\ blockOut[4].op = "add"

(***************************************************************************)
(* SpectralConv2d (lines 377-416).  torch.fft.rfft2 / irfft2 are library   *)
(* transforms: the model keeps the tensors in spectral form, x_ft being    *)
(* the half-spectrum of the input and sret the spectrum handed to irfft2.  *)
(* A spectrum maps <<row, column>> to a vector of complex coefficients     *)
(* indexed by <<time channel, variable channel>>; a complex number is the  *)
(* pair <<re, im>>.  The batch axis is left out (einsum keeps it as is).   *)
(***************************************************************************)
MaxX == 4
MaxY == 4
MaxModes == 4
NTime == 2
NVar == 1
MaxSeed == 1

CZero == <<0, 0>>
COne == <<1, 0>>
CAdd(u, v) == <<u[1] + v[1], u[2] + v[2]>>
CMul(u, v) == <<u[1] * v[1] - u[2] * v[2], u[1] * v[2] + u[2] * v[1]>>

RECURSIVE CSum(_, _)
CSum(f, S) ==
    IF S = {} THEN CZero
    ELSE LET e == CHOOSE e \in S : TRUE IN CAdd(f[e], CSum(f, S \ {e}))

\* <<in/out time channel, in/out variable channel>>
Chans == (1..NTime) \X (1..NVar)

\* x.size(-1)//2 + 1: the number of columns of the half-spectrum
HalfCols == (sy \div 2) + 1

SpecIndex == (0..(sx - 1)) \X (0..(HalfCols - 1))

\* the weight tensors' shape (in_time, out_time, in_var, out_var, modes1, modes2)
WeightIndex ==
    (1..NTime) \X (1..NTime) \X (1..NVar) \X (1..NVar)
        \X (0..(modes1 - 1)) \X (0..(modes2 - 1))

\* weight values: the identity mapping of the channels, or arbitrary values
\* (self.scale * torch.rand(...), later changed by the optimizer), different
\* for the two tensors
MakeWeights(kind, which) ==
    [ix \in WeightIndex |->
        IF kind = "identity"
        THEN IF ix[1] = ix[2] /\ ix[3] = ix[4] THEN COne ELSE CZero
        ELSE IF which = 1
             THEN <<1 + ix[1] + 2 * ix[2] + ix[5], ix[3] + ix[4] + ix[6]>>
             ELSE <<7 + ix[2] + 2 * ix[5] + ix[6], ix[1] - ix[4] - 3>>]

\* input coefficients, none of them zero
InputSpectrum(sd) ==
    [e \in SpecIndex |->
        [ch \in Chans |->
            <<1 + sd + ch[1] + 2 * ch[2] + 3 * e[1] + 5 * e[2],
              e[1] - e[2] + sd * ch[1]>>]]

\* A faulty ZeroSpectrum: the output spectrum starts as a copy of the input.
CopySpectrum == x_ft

\* torch.zeros(batchsize, out_time, out_var, x.size(-2), x.size(-1)//2 + 1)
ZeroSpectrum == [e \in SpecIndex |-> [ch \in Chans |-> CZero]]

\* Python's [:modes1] and [-modes1:] on an axis of sx rows, [:modes2] on an
\* axis of HalfCols columns
LowRowCount == Min2(modes1, sx)
\* A faulty WrapRowStart: the wrap-around block never starts inside the low
\* block.
WrapRowStartAfterLow == Max2(sx - modes1, Min2(modes1, sx))
WrapRowStart == Max2(sx - modes1, 0)
WrapRowCount == sx - WrapRowStart
ColCount == Min2(modes2, HalfCols)

\* ft[:, :, :, r0:r0+nr, :nc], indexed from 0
Block(ft, r0, nr, nc) ==
    [e \in (0..(nr - 1)) \X (0..(nc - 1)) |-> ft[<<r0 + e[1], e[2]>>]]

\* A faulty compl_mul2d: the weights' in-time index is not contracted.
compl_mul2d_first(input, wts, nr, nc) ==
    [e \in (0..(nr - 1)) \X (0..(nc - 1)) |->
        [o \in Chans |->
            CSum([i \in Chans |->
                     CMul(input[e][i], wts[<<1, o[1], i[2], o[2], e[1], e[2]>>])],
                 Chans)]]

\* torch.einsum("bipxy,ijpqxy->bjqxy", input, weights)
compl_mul2d(input, wts, nr, nc) ==
    [e \in (0..(nr - 1)) \X (0..(nc - 1)) |->
        [o \in Chans |->
            CSum([i \in Chans |->
                     CMul(input[e][i], wts[<<i[1], o[1], i[2], o[2], e[1], e[2]>>])],
                 Chans)]]

\* einsum needs the block to have the weights' modes1 x modes2 shape, and so
\* does the assignment of its result into the block of out_ft
ShapesAgree(nr, nc) == nr = modes1 /\ nc = modes2

\* out[:, :, :, r0:r0+nr, :nc] = val
Assign(out, r0, nr, nc, val) ==
    [e \in DOMAIN out |->
        IF e[1] >= r0 /\ e[1] < r0 + nr /\ e[2] < nc
        THEN val[<<e[1] - r0, e[2]>>]
        ELSE out[e]]

\* __init__ (lines 378-394): stores the modes and creates the two weight
\* tensors; it knows no spatial size and checks nothing
SConstruct ==
    /\ spc = "new"
    /\ weights1' = MakeWeights(wkind, 1)
    /\ weights2' = MakeWeights(wkind, 2)
    /\ spc' = "constructed"
    /\ UNCHANGED <<sx, sy, modes1, modes2, wkind, seed, x_ft, out_ft, sret, notConv>>

\* lines 402-404: x_ft = torch.fft.rfft2(x)
SFft ==
    /\ spc = "constructed"
    /\ x_ft' = InputSpectrum(seed)
    /\ spc' = "fft"
    /\ UNCHANGED <<sx, sy, modes1, modes2, wkind, seed, weights1, weights2,
                   out_ft, sret, notConv>>

\* line 407: out_ft = torch.zeros(...)
SZeros ==
    /\ spc = "fft"
    /\ out_ft' = ZeroSpectrum
    /\ spc' = "zeros"
    /\ UNCHANGED <<sx, sy, modes1, modes2, wkind, seed, weights1, weights2,
                   x_ft, sret, notConv>>

\* lines 409-410: the low block
SLow ==
    /\ spc = "zeros"
    /\ IF ShapesAgree(LowRowCount, ColCount)
       THEN /\ out_ft' = Assign(out_ft, 0, LowRowCount, ColCount,
                            compl_mul2d(Block(x_ft, 0, LowRowCount, ColCount),
                                        weights1, LowRowCount, ColCount))
            /\ spc' = "low"
       ELSE /\ spc' = "error"
            /\ UNCHANGED out_ft
    /\ UNCHANGED <<sx, sy, modes1, modes2, wkind, seed, weights1, weights2,
                   x_ft, sret, notConv>>

\* lines 411-412: the wrap-around block
SWrap ==
    /\ spc = "low"
    /\ IF ShapesAgree(WrapRowCount, ColCount)
       THEN /\ out_ft' = Assign(out_ft, WrapRowStart, WrapRowCount, ColCount,
                            compl_mul2d(Block(x_ft, WrapRowStart, WrapRowCount,
                                              ColCount),
                                        weights2, WrapRowCount, ColCount))
            /\ spc' = "wrap"
       ELSE /\ spc' = "error"
            /\ UNCHANGED out_ft
    /\ UNCHANGED <<sx, sy, modes1, modes2, wkind, seed, weights1, weights2,
                   x_ft, sret, notConv>>

\* lines 415-416: x = torch.fft.irfft2(out_ft, s=(x.size(-2), x.size(-1)))
SInverse ==
    /\ spc = "wrap"
    /\ sret' = out_ft
    /\ spc' = "done"
    /\ UNCHANGED <<sx, sy, modes1, modes2, wkind, seed, weights1, weights2,
                   x_ft, out_ft, notConv>>

\* a layer of any mode counts is built and run on an input of any size
InitConv ==
    /\ T_in = 1 /\ T = 1 /\ step = 1
    /\ RolloutIdle
    /\ FwdIdle
    /\ spc = "new"
    /\ sx \in 1..MaxX
    /\ sy \in 1..MaxY
    /\ modes1 \in 1..MaxModes
    /\ modes2 \in 1..MaxModes
    /\ wkind \in {"identity", "rand"}
    /\ seed \in 0..MaxSeed
    /\ weights1 = <<>> /\ weights2 = <<>>
    /\ x_ft = <<>> /\ out_ft = <<>> /\ sret = <<>>
    /\ NormIdle

NextConv ==
    \/ SConstruct
    \/ SFft
    \/ SZeros
    \/ SLow
    \/ SWrap
    \/ SInverse

SpecConv == InitConv /\ [][NextConv]_vars

(***************************************************************************)
(* Properties of the Fourier layer.                                        *)
(***************************************************************************)
ModesSupported ==
    /\ modes1 <= (sx \div 2) + 1
    /\ modes2 <= (sy \div 2) + 1

InLow(e) == e[1] < modes1 /\ e[2] < modes2
InWrap(e) == e[1] >= sx - modes1 /\ e[2] < modes2

\* the contraction of the input coefficients at e with the weights at <<wr, wc>>
Contracted(e, wts, wr, wc) ==
    [o \in Chans |->
        CSum([i \in Chans |->
                 CMul(x_ft[e][i], wts[<<i[1], o[1], i[2], o[2], wr, wc>>])],
             Chans)]

\* C6: a layer whose modes1 exceeds floor(x_size/2)+1, or whose modes2 exceeds
\* floor(y_size/2)+1, is never constructed: construction fails, so no forward
\* pass runs on it.
C6_InvalidModesFailAtConstruction ==
    spc \notin {"idle", "new"} => ModesSupported

\* C7, as the claim states it: for mode counts within floor(size/2)+1, when the
\* inverse transform is taken, every entry
\* outside both blocks is zero, every entry of the low block is the weights1
\* contraction of the input and every entry of the wrap-around block is the
\* weights2 contraction of the input.
C7_BlocksFromOwnWeights ==
    (spc = "done" /\ ModesSupported) =>
        \A e \in SpecIndex :
            /\ (~InLow(e) /\ ~InWrap(e)) => sret[e] = [ch \in Chans |-> CZero]
            /\ InLow(e) => sret[e] = Contracted(e, weights1, e[1], e[2])
            /\ InWrap(e) =>
                  sret[e] = Contracted(e, weights2, e[1] - (sx - modes1), e[2])

\* C7, amended: when the inverse transform is taken, every entry outside both
\* blocks is zero, every entry of the wrap-around block is the weights2
\* contraction of the input, and an entry of the low block is the weights1
\* contraction of the input unless its row also lies in the wrap-around block
\* (2*modes1 > x), where the weights2 result has overwritten it.
C7_BlocksWrapWins ==
    spc = "done" =>
        \A e \in SpecIndex :
            /\ (~InLow(e) /\ ~InWrap(e)) => sret[e] = [ch \in Chans |-> CZero]
            /\ (InLow(e) /\ ~InWrap(e)) =>
                  sret[e] = Contracted(e, weights1, e[1], e[2])
            /\ InWrap(e) =>
                  sret[e] = Contracted(e, weights2, e[1] - (sx - modes1), e[2])

C7_Witness ==
    /\ spc = "done" /\ wkind = "rand"
    /\ \E e \in SpecIndex : ~InLow(e) /\ ~InWrap(e)
    /\ \E e \in SpecIndex : InLow(e) /\ ~InWrap(e)
    /\ \E e \in SpecIndex : InLow(e) /\ InWrap(e)

\* C8: with modes1 = floor(x/2)+1, modes2 = floor(y/2)+1 and identity weights,
\* the two blocks cover the whole half-spectrum and the spectrum handed to the
\* inverse transform is the input spectrum, coefficient for coefficient.
C8_FullModesLossless ==
    (/\ spc = "done"
     /\ wkind = "identity"
     /\ modes1 = (sx \div 2) + 1
     /\ modes2 = (sy \div 2) + 1)
        => /\ \A e \in SpecIndex : InLow(e) \/ InWrap(e)
           /\ sret = x_ft

C8_Witness ==
    /\ spc = "done" /\ wkind = "identity" /\ sx >= 3 /\ sy >= 3
    /\ modes1 = (sx \div 2) + 1 /\ modes2 = (sy \div 2) + 1
    /\ sret = x_ft

(***************************************************************************)
(* The normalizers (lines 84-210).  A tensor is a function from            *)
(* <<sample, feature>> (the fitting data) or from feature (one sample x)   *)
(* to a number.  Numbers are exact fractions <<n, d>> with d > 0, extended *)
(* with the three values a float division by zero produces: <<1, 0>> is    *)
(* +inf, <<-1, 0>> is -inf and <<0, 0>> is nan.  Rounding is not modelled, *)
(* except in Sqrt.                                                         *)
(***************************************************************************)
MaxVal == 2

\* the fitting data has two samples of two features
Samples == {1, 2}
Feats == {1, 2}

Abs(n) == IF n < 0 THEN 0 - n ELSE n
Sign(n) == IF n > 0 THEN 1 ELSE IF n < 0 THEN 0 - 1 ELSE 0

RECURSIVE Gcd(_, _)
Gcd(m, n) == IF n = 0 THEN m ELSE Gcd(n, m % n)

Q(n, d) ==
    IF d = 0 THEN <<Sign(n), 0>>
    ELSE LET g == Gcd(Abs(n), Abs(d))
         IN  <<(Sign(d) * n) \div g, Abs(d) \div g>>

QInt(v) == <<v, 1>>
IsFinite(u) == u[2] # 0
IsNan(u) == u[1] = 0 /\ u[2] = 0

QNeg(u) == <<0 - u[1], u[2]>>
QAdd(u, v) ==
    IF IsNan(u) \/ IsNan(v) THEN <<0, 0>>
    ELSE IF ~IsFinite(u) /\ ~IsFinite(v) THEN (IF u = v THEN u ELSE <<0, 0>>)
    ELSE IF ~IsFinite(u) THEN u
    ELSE IF ~IsFinite(v) THEN v
    ELSE LET g == Gcd(u[2], v[2])
         IN  Q(u[1] * (v[2] \div g) + v[1] * (u[2] \div g), (u[2] \div g) * v[2])
QSub(u, v) == QAdd(u, QNeg(v))
QMul(u, v) ==
    IF ~IsFinite(u) \/ ~IsFinite(v) THEN Q(u[1] * v[1], u[2] * v[2])
    ELSE LET g1 == Gcd(Abs(u[1]), v[2])
             g2 == Gcd(Abs(v[1]), u[2])
         IN  Q((u[1] \div g1) * (v[1] \div g2), (u[2] \div g2) * (v[2] \div g1))
QRecip(u) == Q(u[2], u[1])
QDiv(u, v) == QMul(u, QRecip(v))
QLeq(u, v) == u[1] * v[2] <= v[1] * u[2]

RECURSIVE QSum(_, _)
QSum(f, S) ==
    IF S = {} THEN QInt(0)
    ELSE LET e == CHOOSE e \in S : TRUE IN QAdd(f[e], QSum(f, S \ {e}))

\* the square root, rounded down to two decimals
ISqrt(v) == CHOOSE r \in 0..v : r * r <= v /\ (r + 1) * (r + 1) > v
Sqrt(u) == Q(ISqrt((u[1] * 10000) \div u[2]), 100)

\* eps=0.00001 (lines 85, 123)
Eps == Q(1, 100000)

\* torch.min / torch.max / torch.mean / torch.std (unbiased) of the entries
\* of d whose index is in S
MinOver(d, S) == CHOOSE v \in {d[e] : e \in S} : \A e \in S : v <= d[e]
MaxOver(d, S) == CHOOSE v \in {d[e] : e \in S} : \A e \in S : v >= d[e]
MeanOver(d, S) == QDiv(QSum([e \in S |-> QInt(d[e])], S), QInt(Cardinality(S)))
StdOver(d, S) ==
    Sqrt(QDiv(QSum([e \in S |->
                       QMul(QSub(QInt(d[e]), MeanOver(d, S)),
                            QSub(QInt(d[e]), MeanOver(d, S)))], S),
              QInt(Cardinality(S) - 1)))

All == Samples \X Feats
Column(f) == Samples \X {f}

\* A faulty FitAffine: the offset is taken at the minimum.
FitAffineAtMin(mymin, mymax, low, high) ==
    LET a == QDiv(QSub(high, low), QSub(QInt(mymax), QInt(mymin)))
    IN  [a |-> a, b |-> QAdd(QMul(QNeg(a), QInt(mymin)), high)]

\* self.a = (high - low)/(mymax - mymin); self.b = -self.a*mymax + high
FitAffine(mymin, mymax, low, high) ==
    LET a == QDiv(QSub(high, low), QSub(QInt(mymax), QInt(mymin)))
    IN  [a |-> a, b |-> QAdd(QMul(QNeg(a), QInt(mymax)), high)]

\* the attributes each __init__ sets
Fit(kind, d, low, high) ==
    IF kind = "MinMax_Normalizer"
    THEN FitAffine(MinOver(d, All), MaxOver(d, All), low, high)
    ELSE IF kind = "RangeNormalizer"
    THEN [a |-> [f \in Feats |->
                    FitAffine(MinOver(d, Column(f)), MaxOver(d, Column(f)),
                              low, high).a],
          b |-> [f \in Feats |->
                    FitAffine(MinOver(d, Column(f)), MaxOver(d, Column(f)),
                              low, high).b]]
    ELSE IF kind = "GaussianNormalizer"
    THEN [mean |-> MeanOver(d, All), std |-> StdOver(d, All), eps |-> Eps]
    ELSE [mean |-> [f \in Feats |-> MeanOver(d, Column(f))],
          std |-> [f \in Feats |-> StdOver(d, Column(f))],
          eps |-> Eps]

\* x = self.a*x + self.b
AffineEncode(v, a, bb) == QAdd(QMul(a, v), bb)
\* x = (x - self.b)/self.a
AffineDecode(v, a, bb) == QDiv(QSub(v, bb), a)
\* x = (x - self.mean) / (self.std + self.eps)
GaussEncode(v, mean, std, eps) == QDiv(QSub(v, mean), QAdd(std, eps))

\* A faulty GaussDecode: eps is left out of the scale.
GaussDecodeNoEps(v, mean, std, eps) == QAdd(QMul(v, std), mean)

\* x = (x * (self.std + self.eps)) + self.mean
GaussDecode(v, mean, std, eps) == QAdd(QMul(v, QAdd(std, eps)), mean)

Encode(kind, st, x) ==
    [f \in Feats |->
        IF kind = "MinMax_Normalizer" THEN AffineEncode(x[f], st.a, st.b)
        ELSE IF kind = "RangeNormalizer" THEN AffineEncode(x[f], st.a[f], st.b[f])
        ELSE IF kind = "GaussianNormalizer"
        THEN GaussEncode(x[f], st.mean, st.std, st.eps)
        ELSE GaussEncode(x[f], st.mean[f], st.std[f], st.eps)]

\* decode(x) (sample_idx=None for UnitGaussianNormalizer)
Decode(kind, st, x) ==
    [f \in Feats |->
        IF kind = "MinMax_Normalizer" THEN AffineDecode(x[f], st.a, st.b)
        ELSE IF kind = "RangeNormalizer" THEN AffineDecode(x[f], st.a[f], st.b[f])
        ELSE IF kind = "GaussianNormalizer"
        THEN GaussDecode(x[f], st.mean, st.std, st.eps)
        ELSE GaussDecode(x[f], st.mean[f], st.std[f], st.eps)]

RangeKinds == {"MinMax_Normalizer", "RangeNormalizer"}
StdKinds == {"GaussianNormalizer", "UnitGaussianNormalizer"}

\* __init__(self, x, ...) of the four classes
NFit ==
    /\ npc = "new"
    /\ nstats' = Fit(nkind, ndata, nlow, nhigh)
    /\ npc' = "fitted"
    /\ UNCHANGED <<nkind, ndata, nlow, nhigh, nx, nenc, ndec, notNorm>>

\* encode(self, x)
NEncode ==
    /\ npc = "fitted"
    /\ \E x \in [Feats -> 0..(MaxVal + 1)] :
        /\ nx' = [f \in Feats |-> QInt(x[f])]
        /\ nenc' = Encode(nkind, nstats, [f \in Feats |-> QInt(x[f])])
    /\ npc' = "encoded"
    /\ UNCHANGED <<nkind, ndata, nlow, nhigh, nstats, ndec, notNorm>>

\* decode(self, x) of the encoded tensor
NDecode ==
    /\ npc = "encoded"
    /\ ndec' = Decode(nkind, nstats, nenc)
    /\ npc' = "decoded"
    /\ UNCHANGED <<nkind, ndata, nlow, nhigh, nstats, nx, nenc, notNorm>>

\* a normalizer of any class is fitted on any data; low and high are
\* arguments of the two range classes only (defaults -1.0 and 1.0)
InitNorm ==
    /\ T_in = 1 /\ T = 1 /\ step = 1
    /\ RolloutIdle
    /\ FwdIdle
    /\ ConvIdle
    /\ npc = "new"
    /\ nkind \in RangeKinds \cup StdKinds
    /\ ndata \in [All -> 0..MaxVal]
    /\ nlow \in IF nkind \in RangeKinds THEN {QInt(0 - 1), QInt(0)}
                                         ELSE {QInt(0 - 1)}
    /\ nhigh = QInt(1)
    /\ nstats = <<>> /\ nx = <<>> /\ nenc = <<>> /\ ndec = <<>>

NextNorm ==
    \/ NFit
    \/ NEncode
    \/ NDecode

SpecNorm == InitNorm /\ [][NextNorm]_vars

(***************************************************************************)
(* Properties of the normalizers.                                          *)
(***************************************************************************)
\* the entries a feature's statistics are taken over
Scope(f) == IF nkind \in {"MinMax_Normalizer", "GaussianNormalizer"}
            THEN All ELSE Column(f)

\* the data feature f is fitted on is not constant
NonDegenerate(f) == MaxOver(ndata, Scope(f)) > MinOver(ndata, Scope(f))

\* C9: for each of the four normalizers fitted on non-degenerate data,
\* decode(encode(x)) is x, and encode and decode leave the fitted statistics
\* as __init__ set them.
C9_RoundTrip ==
    /\ npc \in {"fitted", "encoded", "decoded"} =>
          nstats = Fit(nkind, ndata, nlow, nhigh)
    /\ npc = "decoded" =>
          \A f \in Feats : NonDegenerate(f) => ndec[f] = nx[f]

C9_Witness ==
    /\ npc = "decoded"
    /\ nkind = "UnitGaussianNormalizer"
    /\ \A f \in Feats : NonDegenerate(f) /\ ndec[f] = nx[f] /\ nenc[f] # nx[f]

\* C10: for MinMax_Normalizer fitted on data of minimum m < maximum M with
\* low < high, encode maps m to low, M to high and every value of [m, M] into
\* [low, high]; for RangeNormalizer the same holds feature by feature, with
\* the feature's own minimum and maximum.
C10_Extremes ==
    (npc \in {"encoded", "decoded"} /\ nkind \in RangeKinds) =>
        \A f \in Feats :
            NonDegenerate(f) =>
                LET m == QInt(MinOver(ndata, Scope(f)))
                    M == QInt(MaxOver(ndata, Scope(f)))
                IN  /\ nx[f] = m => nenc[f] = nlow
                    /\ nx[f] = M => nenc[f] = nhigh
                    /\ (QLeq(m, nx[f]) /\ QLeq(nx[f], M)) =>
                          (QLeq(nlow, nenc[f]) /\ QLeq(nenc[f], nhigh))

C10_Witness ==
    /\ npc = "encoded"
    /\ nkind = "RangeNormalizer"
    /\ NonDegenerate(1) /\ NonDegenerate(2)
    /\ MinOver(ndata, Column(1)) # MinOver(ndata, Column(2))
    /\ nx[1] = QInt(MinOver(ndata, Column(1))) /\ nenc[1] = nlow
    /\ nx[2] = QInt(MaxOver(ndata, Column(2))) /\ nenc[2] = nhigh

\* fitted on degenerate data, a range-based normalizer has a finite scale and
\* offset and gives finite encoded and decoded values
RangeDefined ==
    (npc # "new" /\ nkind \in RangeKinds) =>
        \A f \in Feats :
            ~NonDegenerate(f) =>
                /\ IsFinite(IF nkind = "MinMax_Normalizer" THEN nstats.a
                                                           ELSE nstats.a[f])
                /\ IsFinite(IF nkind = "MinMax_Normalizer" THEN nstats.b
                                                           ELSE nstats.b[f])
                /\ npc \in {"encoded", "decoded"} => IsFinite(nenc[f])
                /\ npc = "decoded" => IsFinite(ndec[f])

\* fitted on data of zero variance, a std-based normalizer divides by a
\* finite std + eps > 0, its encoded and decoded values are finite and the
\* round trip gives x back
StdDefined ==
    (npc # "new" /\ nkind \in StdKinds) =>
        \A f \in Feats :
            ~NonDegenerate(f) =>
                LET std == IF nkind = "GaussianNormalizer" THEN nstats.std
                                                           ELSE nstats.std[f]
                IN  /\ std = QInt(0)
                    /\ IsFinite(QAdd(std, nstats.eps))
                    /\ QAdd(std, nstats.eps)[1] > 0
                    /\ npc \in {"encoded", "decoded"} => IsFinite(nenc[f])
                    /\ npc = "decoded" => IsFinite(ndec[f]) /\ ndec[f] = nx[f]

\* C11: fitted on degenerate data (maximum equal to minimum), the min-max
\* and range normalizers give no infinite or NaN scale, offset or encoded
\* value; fitted on data of zero variance, the std-based normalizers have
\* std + eps > 0, so that encode and decode stay defined.
C11_DegenerateDefined == RangeDefined /\ StdDefined

(***************************************************************************)
(* Properties of the training loop and of the final test.                  *)
(***************************************************************************)
\* a batch is being processed
InBatch == pc \in {"loop", "full", "opt", "error"}

\* the training batches drawn from train_loader so far, all epochs together
TrainBatchesDrawn ==
    IF mode = "train"
    THEN ep * TrainBatches + (TrainBatches - Cardinality(remaining))
    ELSE (ep + 1) * TrainBatches

\* one optimizer step per training batch drawn, taken when the batch is over;
\* all the forward passes of a batch were made with the same weights
WeightsCount ==
    /\ weights = TrainBatchesDrawn - (IF mode = "train" /\ InBatch THEN 1 ELSE 0)
    /\ \A i \in 1..Len(calls) :
          calls[i].ok =>
              \A j \in 1..step :
                  calls[i].out[j].w =
                      IF pc = "next_batch" /\ b.src = "train"
                      THEN weights - 1 ELSE weights

\* what a step of the program does to the weights
WeightsStep ==
    /\ weights' # weights =>
          /\ mode = "train" /\ pc = "opt"
          /\ weights' = weights + 1
          /\ k * step = T /\ Len(calls) = k
          /\ Len(loss) = k /\ Len(l2_full) = 1
          /\ pc' = "next_batch" /\ calls' = calls
    /\ (mode = "train" /\ pc = "opt") => weights' = weights + 1
    /\ mode \in {"eval", "test"} => weights' = weights
    /\ calls' # calls => (pc \in {"next_batch", "loop"} /\ weights' = weights)

\* C12: the weights change only in the optimizer step, which happens in
\* training mode, once per batch, after all the T/step forward passes of the
\* batch, its step-wise loss and its full-horizon loss, and before the first
\* forward pass of the next batch (all the forward passes of a batch see the
\* same weights); in evaluation mode (per-epoch evaluation and final test)
\* the same transitions run and the weights stay as they are.
C12_WeightsFrame == []WeightsCount /\ [][WeightsStep]_vars

C12_Witness ==
    /\ mode = "test" /\ RolloutDone /\ k >= 2
    /\ weights = Epochs * TrainBatches
    /\ \A i \in 1..Len(calls) : calls[i].out[1].w = weights

(***************************************************************************)
(* Properties of the operator's interface.                                 *)
(***************************************************************************)
\* forward got past the lift
PastLift == fpc \in {"block", "project", "done"}

\* where forward stands, as far as the window's length decides it
LiftGuard ==
    /\ fchan = (IF PastLift /\ fpc # "done" THEN fshape[2] ELSE fshape[5])
    /\ PastLift => fin[5] = T_in
    /\ fpc = "error" =>
          /\ fin[5] # T_in
          /\ fshape = [fin EXCEPT ![5] = fin[5] + 2]
          /\ fx = E("cat_grid", 0, <<E("x", 0, <<>>)>>)
          /\ fblock = 0 /\ blockOut = <<>>
    /\ fpc = "done" => fshape = <<fin[1], fin[2], fin[3], fin[4], step>>

\* the lift decides, and an error is final
LiftStep ==
    /\ fpc = "lift" => fpc' = (IF fin[5] = T_in THEN "block" ELSE "error")
    /\ fpc' = "error" => fpc = "lift"
    /\ fpc # "error"

\* C13: forward accepts a window of exactly T_in time-channels (T_in + 2
\* channels reach the lift, after the two grid channels) and returns exactly
\* step time-channels, the batch, variable, x and y sizes being those of the
\* window; any other length raises at the lift, before any block has run, and
\* nothing runs after the error.
C13_LiftAcceptsTin == []LiftGuard /\ [][LiftStep]_vars

C13_Witness ==
    /\ fpc = "error" /\ fin[5] = T_in + 1 /\ fin[1] >= 2 /\ fin[3] # fin[4]

\* forward returned: the accepting case of C13
ForwardReturned ==
    /\ fpc = "done" /\ fin[5] = T_in /\ T_in >= 2 /\ step >= 2 /\ step # T_in
    /\ fin[1] >= 2 /\ fin[3] # fin[4]

\* in the driver, a call the operator rejects is the rollout's last step: the
\* exception is not caught, no transition, loss or optimizer step follows
ErrorEndsRollout ==
    /\ [](/\ \A i \in 1..Len(calls) :
                /\ calls[i].ok <=> Len(calls[i].input) = T_in
                /\ calls[i].ok => Len(calls[i].out) = step
                /\ ~calls[i].ok => (i = Len(calls) /\ pc = "error")
          /\ Len(calls) \in {k, k + 1})
    /\ [][pc # "error"]_vars

\* a rejected call in the driver
RolloutRejected ==
    /\ pc = "error" /\ calls # <<>> /\ ~calls[Len(calls)].ok

(***************************************************************************)
(* Properties of the final test pass.                                      *)
(***************************************************************************)
\* the examples whose step losses are in the sum the LP error is made from
LossExamples(l) == {l[i].pred[j].ex : i \in 1..Len(l), j \in 1..step}

\* C14: once the final test pass is over, pred_set[i] holds the T-channel
\* rollout prediction of test example i for every i in 0..ntest-1, index is
\* ntest, and the reported LP error is made of the step losses of all the
\* ntest examples.
C14_AllPredictionsStored ==
    /\ pc \in {"metrics", "done"} =>
          /\ index = NTest
          /\ \A i \in LoaderBatches("test") :
                /\ Len(pred_set[i]) = T
                /\ \A j \in 1..Len(pred_set[i]) :
                      /\ pred_set[i][j].kind = "im"
                      /\ pred_set[i][j].src = "test"
                      /\ pred_set[i][j].ex = i
                      /\ pred_set[i][j].at = T_in + j - 1
    /\ pc = "done" =>
          /\ LossExamples(report.LP) = LoaderBatches("test")
          /\ Len(report.LP) * step = NTest * T

\* what the final test pass leaves behind
FinalTestStored ==
    pc \in {"metrics", "done"} =>
        /\ index = 1
        /\ \A j \in 1..T : pred_set[0][j].ex = NTest - 1
        /\ Len(pred_set[0]) = T
        /\ \A i \in LoaderBatches("test") \ {0} : pred_set[i] = <<>>
        /\ pc = "done" =>
              /\ LossExamples(report.LP) = {NTest - 1}
              /\ Len(report.LP) * step = T

\* every target channel of the loss terms l went through y_normalizer.encode,
\* as every prediction channel is in the normalized space
TermsEncoded(l) ==
    \A i \in 1..Len(l) :
        /\ \A j \in 1..Len(l[i].target) : l[i].target[j].enc
        /\ \A j \in 1..Len(l[i].pred) : l[i].pred[j].enc

\* C15: every loss or error metric compares a prediction with a target
\* encoded by y_normalizer: the training losses, the per-epoch test step and
\* full losses, the final test step loss and the final MSE / MAE.
C15_TargetsEncoded ==
    /\ TermsEncoded(loss)
    /\ TermsEncoded(l2_full)
    /\ pc = "done" => (report.MSE.target_enc /\ TermsEncoded(report.LP))

\* which targets are encoded: those of the training loader and of the final
\* MSE / MAE are, those of the two test loaders are not
TargetsByLoader ==
    /\ \A i \in 1..Len(loss) :
          \A j \in 1..Len(loss[i].target) :
              loss[i].target[j].enc <=> b.src = "train"
    /\ \A i \in 1..Len(l2_full) :
          \A j \in 1..Len(l2_full[i].target) :
              l2_full[i].target[j].enc <=> b.src = "train"
    /\ pc = "done" =>
          /\ report.MSE.target_enc
          /\ \A i \in 1..Len(report.LP) :
                \A j \in 1..Len(report.LP[i].target) : ~report.LP[i].target[j].enc

(***************************************************************************)
(* Properties of the two row ranges of SpectralConv2d.forward.             *)
(***************************************************************************)
\* the rows out_ft[:, :, :, :modes1] and out_ft[:, :, :, -modes1:] address
LowRows == 0..(LowRowCount - 1)
WrapRows == WrapRowStart..(WrapRowStart + WrapRowCount - 1)

\* modes1 is within the bound of the comment of line 389
Modes1Supported == modes1 >= 1 /\ modes1 <= (sx \div 2) + 1

\* the low block has been written
LowWritten == spc \in {"low", "wrap", "done"}

\* the write of the wrap-around block leaves the low block as it was
WrapKeepsLow ==
    (spc = "low" /\ spc' = "wrap") =>
        \A e \in SpecIndex : InLow(e) => out_ft'[e] = out_ft[e]

\* the write of the wrap-around block changes no entry of the low block
\* above the wrap-around block's first row
WrapKeepsLowAbove ==
    (spc = "low" /\ spc' = "wrap") =>
        \A e \in SpecIndex :
            (InLow(e) /\ e[1] < sx - modes1) => out_ft'[e] = out_ft[e]

\* C16, as the claim states it: for every x_size and every modes1 with
\* 1 <= modes1 <= floor(x_size/2)+1, the row ranges of the low block and of the
\* wrap-around block are disjoint, so that the second write changes no entry
\* the first one wrote.
C16_RowRangesDisjoint ==
    /\ [][Modes1Supported => WrapKeepsLow]_vars
    /\ []((LowWritten /\ Modes1Supported) => LowRows \cap WrapRows = {})

\* C16, amended: the row ranges of the low block [0, modes1) and of the
\* wrap-around block [x_size - modes1, x_size) are disjoint exactly when
\* 2*modes1 <= x_size; otherwise (for modes1 = floor(x_size/2)+1 in
\* particular) they share the rows [x_size - modes1, modes1), and the second
\* write changes entries of the low block on those rows only.
C16_RowRangesDisjointUpToHalf ==
    /\ [][WrapKeepsLowAbove /\ (2 * modes1 <= sx => WrapKeepsLow)]_vars
    /\ [](LowWritten =>
            /\ LowRows = 0..(modes1 - 1)
            /\ WrapRows = (sx - modes1)..(sx - 1)
            /\ LowRows \cap WrapRows = (sx - modes1)..(modes1 - 1)
            /\ (LowRows \cap WrapRows = {}) <=> (2 * modes1 <= sx)
            /\ modes1 = (sx \div 2) + 1 => LowRows \cap WrapRows # {})

C16_Witness ==
    /\ spc = "wrap" /\ Modes1Supported /\ 2 * modes1 > sx /\ sx >= 3
    /\ \E e \in SpecIndex :
          /\ InLow(e) /\ InWrap(e)
          /\ out_ft[e] # Contracted(e, weights1, e[1], e[2])
    /\ \E e \in SpecIndex : InLow(e) /\ ~InWrap(e)

(***************************************************************************)
(* Properties of the learning-rate schedule.                               *)
(***************************************************************************)
\* f to the power n
RECURSIVE RatePow(_, _)
RatePow(f, n) == IF n = 0 THEN <<1, 1>> ELSE Scale(RatePow(f, n - 1), f)

\* the initial rate times gamma^floor(n / 'Scheduler Step')
RateAfter(n) == Scale(LearningRate, RatePow(SchedulerGamma, n \div SchedulerStep))

\* the scheduler has been stepped once per optimizer step, that is once per
\* training batch completed, and the rate follows the count of batches
ScheduleCount ==
    /\ schedSteps = weights
    /\ schedSteps = TrainBatchesDrawn
                        - (IF mode = "train" /\ InBatch THEN 1 ELSE 0)
    /\ lr = RateAfter(schedSteps)
    /\ (mode # "train" /\ (ep + 1) % SchedulerStep = 0) =>
          lr = Scale(LearningRate,
                     RatePow(SchedulerGamma,
                             TrainBatches * ((ep + 1) \div SchedulerStep)))

\* the scheduler is stepped by the step that applies the optimizer, and by no
\* other: not when an epoch or its evaluation ends
ScheduleStep ==
    /\ (schedSteps' # schedSteps \/ lr' # lr) =>
          /\ mode = "train" /\ pc = "opt"
          /\ schedSteps' = schedSteps + 1
    /\ weights' # weights => schedSteps' = schedSteps + 1
    /\ (ep' # ep \/ mode' # mode) => (schedSteps' = schedSteps /\ lr' = lr)

\* C17: scheduler.step() runs once per optimizer step, that is once per
\* training batch and not once per epoch; after n training batches the
\* learning rate is the initial rate times gamma^floor(n / 'Scheduler Step'),
\* so that over 'Scheduler Step' epochs it has decayed once per batch of an
\* epoch (ntrain/batch_size times).
C17_SchedulerPerBatch == []ScheduleCount /\ [][ScheduleStep]_vars

C17_Witness ==
    /\ mode = "train" /\ ep = 0 /\ pc = "next_batch"
    /\ schedSteps = SchedulerStep /\ weights = SchedulerStep
    /\ lr = Scale(LearningRate, SchedulerGamma)

====
